---- MODULE Spec2Model ----
(***************************************************************************)
(* Model of src/spatial/position.rs: the generic 2D position Pos<T>, its   *)
(* wrapping arithmetic, neighbour generators, quarter-turn rotations and   *)
(* the conversion From<u8> for Pos<i8>.                                    *)
(*                                                                         *)
(* A coordinate of element type T is held as its bit pattern: a sequence   *)
(* of bytes, least significant first, as long as T is wide.  The wrapping  *)
(* operations of the primitive integer types work on that pattern and     *)
(* drop the carry out of the top byte.  The integer a pattern stands for   *)
(* (ToInt) is only used to state properties.                               *)
(***************************************************************************)
EXTENDS Integers, Sequences, FiniteSets, TLC

VARIABLES ty, p, op, lhs, rhs, k, glyph, outs, origin, turns

vars == <<ty, p, op, lhs, rhs, k, glyph, outs, origin, turns>>

(* Bounds of the exploration.                                              *)
\* coordinates are taken within Near of 0, of -1 (unsigned MAX), of the
\* signed MAX and of the signed MIN of the element type
Near == 2
\* longest chain of successive quarter-turns applied to one position
MaxTurns == 4

----------------------------------------------------------------------------
(* Element types T: the fixed-width primitive integers.                    *)

Types == {"i8", "u8", "i16", "u16", "i32", "u32", "i64", "u64"}

Signed(t) == t \in {"i8", "i16", "i32", "i64"}

Width(t) ==
    CASE t \in {"i8", "u8"} -> 1
      [] t \in {"i16", "u16"} -> 2
      [] t \in {"i32", "u32"} -> 4
      [] t \in {"i64", "u64"} -> 8

(* Bit patterns of the interesting values of a type n bytes wide.          *)
Fill(b, m) == SubSeq(<<b, b, b, b, b, b, b>>, 1, m)
Small(n, c) == <<c>> \o Fill(0, n - 1)
Zero(n) == Small(n, 0)
Ones(n, c) == <<255 - c>> \o Fill(255, n - 1)
SMax(n, c) == IF n = 1 THEN <<127 - c>> ELSE <<255 - c>> \o Fill(255, n - 2) \o <<127>>
SMin(n, c) == IF n = 1 THEN <<128 + c>> ELSE <<c>> \o Fill(0, n - 2) \o <<128>>

Values(t) ==
    LET n == Width(t)
    IN  UNION {{Small(n, c), Ones(n, c), SMax(n, c), SMin(n, c)} : c \in 0..Near}

Pos(a, b) == [x |-> a, y |-> b]

Points(t) == {Pos(a, b) : a \in Values(t), b \in Values(t)}

----------------------------------------------------------------------------
(* The wrapping operations of the primitive integers, on bit patterns.     *)

RECURSIVE AddFrom(_, _, _, _)
AddFrom(a, b, i, c) ==
    IF i > Len(a) THEN <<>>
    ELSE LET s == a[i] + b[i] + c
         IN  <<s % 256>> \o AddFrom(a, b, i + 1, s \div 256)

Complement(a) == [i \in 1..Len(a) |-> 255 - a[i]]

wrapping_add(a, b) == AddFrom(a, b, 1, 0)

wrapping_sub(a, b) == AddFrom(a, Complement(b), 1, 1)

wrapping_neg(a) == wrapping_sub(Zero(Len(a)), a)

RECURSIVE Column(_, _, _, _)
Column(a, b, col, i) ==
    IF i > col THEN 0 ELSE a[i] * b[col + 1 - i] + Column(a, b, col, i + 1)

RECURSIVE MulFrom(_, _, _, _)
MulFrom(a, b, col, c) ==
    IF col > Len(a) THEN <<>>
    ELSE LET s == Column(a, b, col, 1) + c
         IN  <<s % 256>> \o MulFrom(a, b, col + 1, s \div 256)

wrapping_mul(a, b) == MulFrom(a, b, 1, 0)

----------------------------------------------------------------------------
(* Pos<T> and its operations.                                              *)

default(t) == Pos(Zero(Width(t)), Zero(Width(t)))

\* variant: the y coordinate takes the right operand's x
add_y_from_x(self, r) == Pos(wrapping_add(self.x, r.x), wrapping_add(self.y, r.x))

add(self, r) == Pos(wrapping_add(self.x, r.x), wrapping_add(self.y, r.y))

\* variant: the operands the wrong way round
sub_reversed(self, r) == Pos(wrapping_sub(r.x, self.x), wrapping_sub(r.y, self.y))

sub(self, r) == Pos(wrapping_sub(self.x, r.x), wrapping_sub(self.y, r.y))

\* variant: only x is scaled
mul_x_only(self, r) == Pos(wrapping_mul(self.x, r), self.y)

mul(self, r) == Pos(wrapping_mul(self.x, r), wrapping_mul(self.y, r))

\* variant: only x is negated
neg_x_only(self) == Pos(wrapping_neg(self.x), self.y)

neg(self) == Pos(wrapping_neg(self.x), wrapping_neg(self.y))

\* an i8 literal as its bit pattern
I8(n) == <<n % 256>>

\* the byte literals b'<', b'>', b'v', b'V' of the match
LessThan == 60
GreaterThan == 62
LowerV == 118
UpperV == 86

\* variant: the upper-case V is not recognised
from_lower_v_only(value) ==
    CASE value = LessThan -> Pos(I8(-1), I8(0))
      [] value = GreaterThan -> Pos(I8(1), I8(0))
      [] value = LowerV -> Pos(I8(0), I8(1))
      [] OTHER -> Pos(I8(0), I8(-1))

from(value) ==
    CASE value = LessThan -> Pos(I8(-1), I8(0))
      [] value = GreaterThan -> Pos(I8(1), I8(0))
      [] value \in {LowerV, UpperV} -> Pos(I8(0), I8(1))
      [] OTHER -> Pos(I8(0), I8(-1))

\* variant: the first two neighbours in the other order
crosses_reordered(self, dist) ==
    << Pos(self.x, wrapping_sub(self.y, dist)),
       Pos(self.x, wrapping_add(self.y, dist)),
       Pos(wrapping_add(self.x, dist), self.y),
       Pos(wrapping_sub(self.x, dist), self.y) >>

crosses(self, dist) ==
    << Pos(self.x, wrapping_add(self.y, dist)),
       Pos(self.x, wrapping_sub(self.y, dist)),
       Pos(wrapping_add(self.x, dist), self.y),
       Pos(wrapping_sub(self.x, dist), self.y) >>

\* variant: the second and third neighbours in the other order
diagonals_reordered(self, dist) ==
    << Pos(wrapping_add(self.x, dist), wrapping_add(self.y, dist)),
       Pos(wrapping_add(self.x, dist), wrapping_sub(self.y, dist)),
       Pos(wrapping_sub(self.x, dist), wrapping_add(self.y, dist)),
       Pos(wrapping_sub(self.x, dist), wrapping_sub(self.y, dist)) >>

diagonals(self, dist) ==
    << Pos(wrapping_add(self.x, dist), wrapping_add(self.y, dist)),
       Pos(wrapping_sub(self.x, dist), wrapping_add(self.y, dist)),
       Pos(wrapping_add(self.x, dist), wrapping_sub(self.y, dist)),
       Pos(wrapping_sub(self.x, dist), wrapping_sub(self.y, dist)) >>

\* variant: the turn that is clockwise where y increases downward
clockwise_y_down(self) == Pos(wrapping_neg(self.y), self.x)

\* variant: y read twice
clockwise_y_twice(self) == Pos(self.y, wrapping_neg(self.y))

clockwise(self) == Pos(self.y, wrapping_neg(self.x))

\* variant: the same turn as clockwise
counterclockwise_as_clockwise(self) == Pos(self.y, wrapping_neg(self.x))

counterclockwise(self) == Pos(wrapping_neg(self.y), self.x)

----------------------------------------------------------------------------
(* The state: the position a caller holds (p, of element type ty) and a    *)
(* record of the last operation: its name, its receiver (lhs), its         *)
(* arguments (rhs, k), the array it returned (outs), the byte the position *)
(* was converted from (glyph, 0 when it was not), and for                  *)
(* quarter-turns the position the chain of turns started from (origin)     *)
(* with the turns made since (turns).  A caller obtains one position and   *)
(* applies an operation to it; quarter-turns may be chained.               *)

Bytes == 0..255

Constructors == {"default", "new", "from"}
Rotations == {"clockwise", "counterclockwise"}

Fresh == op \in Constructors

\* what an operation leaves in the fields it does not use
Blank(t) ==
    /\ rhs' = default(t)
    /\ k' = Zero(Width(t))
    /\ glyph' = 0
    /\ outs' = <<>>

\* a caller starts from a position it wrote down: Pos { x, y }
Init ==
    /\ ty \in Types
    /\ p \in Points(ty)
    /\ op = "new"
    /\ lhs = p
    /\ rhs = default(ty)
    /\ k = Zero(Width(ty))
    /\ glyph = 0
    /\ outs = <<>>
    /\ origin = p
    /\ turns = <<>>

\* Pos::default(), in place of the position written down
Default ==
    /\ op = "new"
    /\ p' = default(ty)
    /\ op' = "default"
    /\ lhs' = p'
    /\ origin' = p'
    /\ Blank(ty)
    /\ UNCHANGED <<ty, turns>>

\* Pos::from(value), in place of the position written down; only Pos<i8>
From ==
    /\ op = "new"
    /\ ty = "i8"
    /\ \E value \in Bytes :
        /\ p' = from(value)
        /\ glyph' = value
    /\ op' = "from"
    /\ lhs' = p'
    /\ origin' = p'
    /\ rhs' = default(ty)
    /\ k' = Zero(Width(ty))
    /\ outs' = <<>>
    /\ UNCHANGED <<ty, turns>>

\* self + rhs
Add ==
    /\ Fresh
    /\ \E r \in Points(ty) :
        /\ p' = add(p, r)
        /\ rhs' = r
    /\ op' = "add"
    /\ lhs' = p
    /\ k' = Zero(Width(ty))
    /\ glyph' = 0
    /\ outs' = <<>>
    /\ UNCHANGED <<ty, origin, turns>>

\* self - rhs
Sub ==
    /\ Fresh
    /\ \E r \in Points(ty) :
        /\ p' = sub(p, r)
        /\ rhs' = r
    /\ op' = "sub"
    /\ lhs' = p
    /\ k' = Zero(Width(ty))
    /\ glyph' = 0
    /\ outs' = <<>>
    /\ UNCHANGED <<ty, origin, turns>>

\* self * rhs
Mul ==
    /\ Fresh
    /\ \E r \in Values(ty) :
        /\ p' = mul(p, r)
        /\ k' = r
    /\ op' = "mul"
    /\ lhs' = p
    /\ rhs' = default(ty)
    /\ glyph' = 0
    /\ outs' = <<>>
    /\ UNCHANGED <<ty, origin, turns>>

\* -self
Neg ==
    /\ Fresh
    /\ p' = neg(p)
    /\ op' = "neg"
    /\ lhs' = p
    /\ Blank(ty)
    /\ UNCHANGED <<ty, origin, turns>>

\* self.crosses(dist): takes &self, returns the array
Crosses ==
    /\ Fresh
    /\ \E dist \in Values(ty) :
        /\ outs' = crosses(p, dist)
        /\ k' = dist
    /\ op' = "crosses"
    /\ lhs' = p
    /\ rhs' = default(ty)
    /\ glyph' = 0
    /\ UNCHANGED <<ty, p, origin, turns>>

\* self.diagonals(dist): takes &self, returns the array
Diagonals ==
    /\ Fresh
    /\ \E dist \in Values(ty) :
        /\ outs' = diagonals(p, dist)
        /\ k' = dist
    /\ op' = "diagonals"
    /\ lhs' = p
    /\ rhs' = default(ty)
    /\ glyph' = 0
    /\ UNCHANGED <<ty, p, origin, turns>>

\* a quarter-turn may follow a construction or another quarter-turn
CanTurn == (Fresh \/ op \in Rotations) /\ Len(turns) < MaxTurns

\* self.clockwise()
Clockwise ==
    /\ CanTurn
    /\ p' = clockwise(p)
    /\ op' = "clockwise"
    /\ lhs' = p
    /\ turns' = Append(turns, "cw")
    /\ rhs' = default(ty)
    /\ k' = Zero(Width(ty))
    /\ outs' = <<>>
    /\ UNCHANGED <<ty, origin, glyph>>

\* self.counterclockwise()
Counterclockwise ==
    /\ CanTurn
    /\ p' = counterclockwise(p)
    /\ op' = "counterclockwise"
    /\ lhs' = p
    /\ turns' = Append(turns, "ccw")
    /\ rhs' = default(ty)
    /\ k' = Zero(Width(ty))
    /\ outs' = <<>>
    /\ UNCHANGED <<ty, origin, glyph>>

Next ==
    \/ Default
    \/ From
    \/ Add
    \/ Sub
    \/ Mul
    \/ Neg
    \/ Crosses
    \/ Diagonals
    \/ Clockwise
    \/ Counterclockwise

Spec == Init /\ [][Next]_vars

----------------------------------------------------------------------------
(* What a bit pattern stands for.  These definitions state the properties  *)
(* below; no operation of the model uses them.                             *)

IsValue(t, v) == Len(v) = Width(t) /\ \A i \in 1..Len(v) : v[i] \in 0..255
IsPoint(t, a) == IsValue(t, a.x) /\ IsValue(t, a.y)

\* types whose values, sums and differences are small enough to be written
\* as plain integers
Narrow(t) == Width(t) <= 2
Modulus(t) == IF Width(t) = 1 THEN 256 ELSE 65536
ToNat(v) == IF Len(v) = 1 THEN v[1] ELSE v[1] + 256 * v[2]
\* the member of T's range congruent to n modulo 2^w
Wrap(t, n) ==
    LET m == n % Modulus(t)
    IN  IF Signed(t) /\ 2 * m >= Modulus(t) THEN m - Modulus(t) ELSE m
ToInt(t, v) == Wrap(t, ToNat(v))
\* narrow types whose products fit as well
ProductFits(t) == Width(t) = 1 \/ t = "i16"

\* r = a + b modulo 2^w, for patterns of any width, read as digits of 16
\* bits (of 8 bits for the one-byte types): some carries c, none into the
\* lowest digit, make every digit's sum come out; the carry out of the top
\* digit is dropped
Digits(v) == IF Len(v) = 1 THEN 1 ELSE Len(v) \div 2
Digit(v, j) == IF Len(v) = 1 THEN v[1] ELSE v[2 * j - 1] + 256 * v[2 * j]
Radix(v) == IF Len(v) = 1 THEN 256 ELSE 65536
SumMod(r, a, b) ==
    \E c \in [1..(Digits(r) + 1) -> {0, 1}] :
        /\ c[1] = 0
        /\ \A j \in 1..Digits(r) :
            Digit(a, j) + Digit(b, j) + c[j] = Digit(r, j) + Radix(r) * c[j + 1]
\* r = a - b modulo 2^w: a = r + b
DiffMod(r, a, b) == SumMod(a, r, b)
\* r = 0 - a modulo 2^w: r + a = 0
NegMod(r, a) == SumMod(Zero(Len(a)), r, a)

\* r = a * b modulo 2^w, as the sum of the shifted copies of a that the
\* bits of b select: a * b = sum over the bits b_i = 1 of a * 2^i
BitOf(b, i) == (b[(i \div 8) + 1] \div (2 ^ (i % 8))) % 2
\* a * 2^i modulo 2^w: the bits of a moved up i places, the top ones dropped
ShiftedUp(a, i) ==
    LET q == i \div 8
        r == i % 8
        At(j) == IF j < 1 THEN 0 ELSE a[j]
    IN  [j \in 1..Len(a) |->
            ((At(j - q) * (2 ^ r)) % 256) + (At(j - q - 1) \div (2 ^ (8 - r)))]
RECURSIVE Selected(_, _, _, _)
\* the sum over the bits lo .. hi-1 of b
Selected(a, b, lo, hi) ==
    IF hi = lo + 1
    THEN AddFrom(Zero(Len(a)), IF BitOf(b, lo) = 1 THEN ShiftedUp(a, lo) ELSE Zero(Len(a)), 1, 0)
    ELSE AddFrom(Selected(a, b, lo, (lo + hi) \div 2),
                 Selected(a, b, (lo + hi) \div 2, hi), 1, 0)
ProdMod(r, a, b) == r = Selected(a, b, 0, 8 * Len(a))

\* the literals of the tests, as patterns of a type t
Lit(t, c) == IF c >= 0 THEN Small(Width(t), c) ELSE Ones(Width(t), -1 - c)
MAX(t) == IF Signed(t) THEN SMax(Width(t), 0) ELSE Ones(Width(t), 0)
MIN(t) == IF Signed(t) THEN SMin(Width(t), 0) ELSE Zero(Width(t))

----------------------------------------------------------------------------
(* Arithmetic.                                                             *)

\* C1: a + b is componentwise wraparound addition for every element type:
\* each coordinate of the result is the sum of the operands' coordinates
\* modulo 2^w, in T's range, and is always a value of T (no failure, no
\* saturation); for i32, (1,2) + (MAX,MAX) = (MIN, MIN+1).
C1_AddWraps ==
    op = "add" =>
        /\ IsPoint(ty, p)
        /\ SumMod(p.x, lhs.x, rhs.x)
        /\ SumMod(p.y, lhs.y, rhs.y)
        /\ Narrow(ty) =>
            /\ ToInt(ty, p.x) = Wrap(ty, ToInt(ty, lhs.x) + ToInt(ty, rhs.x))
            /\ ToInt(ty, p.y) = Wrap(ty, ToInt(ty, lhs.y) + ToInt(ty, rhs.y))
        /\ ( /\ ty = "i32"
             /\ lhs = Pos(Lit(ty, 1), Lit(ty, 2))
             /\ rhs = Pos(MAX(ty), MAX(ty)) )
           => p = Pos(MIN(ty), SMin(4, 1))

C1_Witness ==
    /\ op = "add"
    /\ ty = "i32"
    /\ lhs = Pos(Lit(ty, 1), Lit(ty, 2))
    /\ rhs = Pos(MAX(ty), MAX(ty))
    /\ p = Pos(MIN(ty), SMin(4, 1))

\* C2: a - b is componentwise wraparound subtraction for every element
\* type; for i32, (-1,-2) - (MAX,MAX) = (MIN, MAX).
C2_SubWraps ==
    op = "sub" =>
        /\ IsPoint(ty, p)
        /\ DiffMod(p.x, lhs.x, rhs.x)
        /\ DiffMod(p.y, lhs.y, rhs.y)
        /\ Narrow(ty) =>
            /\ ToInt(ty, p.x) = Wrap(ty, ToInt(ty, lhs.x) - ToInt(ty, rhs.x))
            /\ ToInt(ty, p.y) = Wrap(ty, ToInt(ty, lhs.y) - ToInt(ty, rhs.y))
        /\ ( /\ ty = "i32"
             /\ lhs = Pos(Lit(ty, -1), Lit(ty, -2))
             /\ rhs = Pos(MAX(ty), MAX(ty)) )
           => p = Pos(MIN(ty), MAX(ty))

C2_Witness ==
    /\ op = "sub"
    /\ ty = "i32"
    /\ lhs = Pos(Lit(ty, -1), Lit(ty, -2))
    /\ rhs = Pos(MAX(ty), MAX(ty))
    /\ p = Pos(MIN(ty), MAX(ty))

\* C3: a * k multiplies each coordinate by the scalar k with wraparound
\* for every element type; for i32, (1,2) * MAX = (MAX, -2).
C3_MulWraps ==
    op = "mul" =>
        /\ IsPoint(ty, p)
        /\ ProdMod(p.x, lhs.x, k)
        /\ ProdMod(p.y, lhs.y, k)
        /\ ProductFits(ty) =>
            /\ ToInt(ty, p.x) = Wrap(ty, ToInt(ty, lhs.x) * ToInt(ty, k))
            /\ ToInt(ty, p.y) = Wrap(ty, ToInt(ty, lhs.y) * ToInt(ty, k))
        /\ ( /\ ty = "i32"
             /\ lhs = Pos(Lit(ty, 1), Lit(ty, 2))
             /\ k = MAX(ty) )
           => p = Pos(MAX(ty), Lit(ty, -2))

C3_Witness ==
    /\ op = "mul"
    /\ ty = "i32"
    /\ lhs = Pos(Lit(ty, 1), Lit(ty, 2))
    /\ k = MAX(ty)
    /\ p = Pos(MAX(ty), Lit(ty, -2))

\* C4: -a negates each coordinate with wraparound (0 - v modulo 2^w) for
\* every element type; for u32, -(1,2) = (MAX, MAX-1); a coordinate at the
\* minimum of a signed type negates to itself.
C4_NegWraps ==
    op = "neg" =>
        /\ IsPoint(ty, p)
        /\ NegMod(p.x, lhs.x)
        /\ NegMod(p.y, lhs.y)
        /\ Narrow(ty) =>
            /\ ToInt(ty, p.x) = Wrap(ty, 0 - ToInt(ty, lhs.x))
            /\ ToInt(ty, p.y) = Wrap(ty, 0 - ToInt(ty, lhs.y))
        /\ (ty = "u32" /\ lhs = Pos(Lit(ty, 1), Lit(ty, 2)))
           => p = Pos(MAX(ty), Ones(4, 1))
        /\ (Signed(ty) /\ lhs.x = MIN(ty)) => p.x = MIN(ty)
        /\ (Signed(ty) /\ lhs.y = MIN(ty)) => p.y = MIN(ty)

C4_Witness ==
    /\ op = "neg"
    /\ ty = "i32"
    /\ lhs = Pos(MIN(ty), Lit(ty, 1))
    /\ p = Pos(MIN(ty), Lit(ty, -1))

----------------------------------------------------------------------------
(* Neighbours.                                                             *)

\* C5: crosses(p, d) returns exactly 4 positions, in the order (x, y+d),
\* (x, y-d), (x+d, y), (x-d, y), with wraparound + and - (from (0,0) of an
\* unsigned type x-d wraps to MAX-d+1), and leaves p as it was.
C5_CrossesOrder ==
    op = "crosses" =>
        /\ Len(outs) = 4
        /\ \A i \in 1..4 : IsPoint(ty, outs[i])
        /\ outs[1].x = lhs.x /\ SumMod(outs[1].y, lhs.y, k)
        /\ outs[2].x = lhs.x /\ DiffMod(outs[2].y, lhs.y, k)
        /\ SumMod(outs[3].x, lhs.x, k) /\ outs[3].y = lhs.y
        /\ DiffMod(outs[4].x, lhs.x, k) /\ outs[4].y = lhs.y
        /\ p = origin
        /\ Narrow(ty) =>
            /\ ToInt(ty, outs[1].y) = Wrap(ty, ToInt(ty, lhs.y) + ToInt(ty, k))
            /\ ToInt(ty, outs[2].y) = Wrap(ty, ToInt(ty, lhs.y) - ToInt(ty, k))
            /\ ToInt(ty, outs[3].x) = Wrap(ty, ToInt(ty, lhs.x) + ToInt(ty, k))
            /\ ToInt(ty, outs[4].x) = Wrap(ty, ToInt(ty, lhs.x) - ToInt(ty, k))
        /\ (ty = "u16" /\ lhs = default(ty))
           => ToInt(ty, outs[4].x) = Wrap(ty, ToInt(ty, MAX(ty)) - ToInt(ty, k) + 1)
        /\ (ty = "u32" /\ lhs = default(ty) /\ k = Lit(ty, 2))
           => outs = << Pos(Lit(ty, 0), Lit(ty, 2)), Pos(Lit(ty, 0), Ones(4, 1)),
                        Pos(Lit(ty, 2), Lit(ty, 0)), Pos(Ones(4, 1), Lit(ty, 0)) >>

C5_Witness ==
    /\ op = "crosses"
    /\ ty = "u32"
    /\ p = default(ty)
    /\ k = Lit(ty, 2)
    /\ outs[4] = Pos(Ones(4, 1), Lit(ty, 0))

\* C6: diagonals(p, d) returns exactly 4 positions, in the order
\* (x+d, y+d), (x-d, y+d), (x+d, y-d), (x-d, y-d), with wraparound + and -.
C6_DiagonalsOrder ==
    op = "diagonals" =>
        /\ Len(outs) = 4
        /\ \A i \in 1..4 : IsPoint(ty, outs[i])
        /\ SumMod(outs[1].x, lhs.x, k) /\ SumMod(outs[1].y, lhs.y, k)
        /\ DiffMod(outs[2].x, lhs.x, k) /\ SumMod(outs[2].y, lhs.y, k)
        /\ SumMod(outs[3].x, lhs.x, k) /\ DiffMod(outs[3].y, lhs.y, k)
        /\ DiffMod(outs[4].x, lhs.x, k) /\ DiffMod(outs[4].y, lhs.y, k)
        /\ Narrow(ty) =>
            LET x == ToInt(ty, lhs.x)
                y == ToInt(ty, lhs.y)
                d == ToInt(ty, k)
                At(i) == <<ToInt(ty, outs[i].x), ToInt(ty, outs[i].y)>>
            IN  /\ At(1) = <<Wrap(ty, x + d), Wrap(ty, y + d)>>
                /\ At(2) = <<Wrap(ty, x - d), Wrap(ty, y + d)>>
                /\ At(3) = <<Wrap(ty, x + d), Wrap(ty, y - d)>>
                /\ At(4) = <<Wrap(ty, x - d), Wrap(ty, y - d)>>
        /\ (ty = "u32" /\ lhs = default(ty) /\ k = Lit(ty, 1))
           => outs = << Pos(Lit(ty, 1), Lit(ty, 1)), Pos(MAX(ty), Lit(ty, 1)),
                        Pos(Lit(ty, 1), MAX(ty)), Pos(MAX(ty), MAX(ty)) >>

C6_Witness ==
    /\ op = "diagonals"
    /\ ty = "u32"
    /\ lhs = Pos(MAX(ty), Lit(ty, 0))
    /\ k = Lit(ty, 1)
    /\ outs[2] = Pos(Ones(4, 1), Lit(ty, 1))
    /\ outs[3] = Pos(Lit(ty, 0), MAX(ty))

----------------------------------------------------------------------------
(* Conversion from a byte.                                                 *)

\* the bytes b'^' and b'x' of the tests
Caret == 94
LowerX == 120

Vec(a) == <<ToInt("i8", a.x), ToInt("i8", a.y)>>
UnitVectors == {<<-1, 0>>, <<1, 0>>, <<0, 1>>, <<0, -1>>}

\* C7: the conversion from a byte is total over the 256 byte values: '<'
\* gives (-1,0), '>' gives (1,0), 'v' and 'V' give (0,1), every other byte
\* ('^' and 'x' among them) gives (0,-1); so every byte gives one of the
\* four unit vectors.
C7_FromTotal ==
    op = "from" =>
        /\ ty = "i8"
        /\ IsPoint(ty, p)
        /\ glyph = LessThan => Vec(p) = <<-1, 0>>
        /\ glyph = GreaterThan => Vec(p) = <<1, 0>>
        /\ glyph \in {LowerV, UpperV} => Vec(p) = <<0, 1>>
        /\ glyph \notin {LessThan, GreaterThan, LowerV, UpperV} => Vec(p) = <<0, -1>>
        /\ glyph \in {Caret, LowerX} => Vec(p) = <<0, -1>>
        /\ \A b \in Bytes : Vec(from(b)) \in UnitVectors

C7_Witness ==
    /\ op = "from"
    /\ glyph = LowerX
    /\ Vec(p) = <<0, -1>>

----------------------------------------------------------------------------
(* Quarter-turns.                                                          *)

East == from(GreaterThan)
South == from(LowerV)
West == from(LessThan)
North == from(Caret)

\* C8, as the claim states it: in the frame of the byte conversion (east
\* (1,0), south (0,1), west (-1,0), north (0,-1)) clockwise takes east to
\* south, south to west, west to north and north to east, so
\* clockwise(from('>')) = from('v'), and counterclockwise turns the other
\* way.
C8_ClockwiseInGlyphFrame ==
    /\ (ty = "i8" /\ turns = <<"cw">>) =>
        /\ origin = East => p = South
        /\ origin = South => p = West
        /\ origin = West => p = North
        /\ origin = North => p = East
    /\ (ty = "i8" /\ turns = <<"ccw">>) =>
        /\ origin = East => p = North
        /\ origin = North => p = West
        /\ origin = West => p = South
        /\ origin = South => p = East

\* C8, amended: clockwise(p) = (p.y, -p.x) and counterclockwise(p) =
\* (-p.y, p.x), with wraparound negation; that is the clockwise turn of the
\* frame where y increases upward.  In the frame of the byte conversion
\* clockwise takes east to north, north to west, west to south and south to
\* east, so clockwise(from('>')) = from('^'), and counterclockwise turns
\* the other way, so counterclockwise(from('>')) = from('v').
C8_ClockwiseYUp ==
    /\ op = "clockwise" => (p.x = lhs.y /\ NegMod(p.y, lhs.x))
    /\ op = "counterclockwise" => (NegMod(p.x, lhs.y) /\ p.y = lhs.x)
    /\ (ty = "i8" /\ turns = <<"cw">>) =>
        /\ origin = East => p = North
        /\ origin = North => p = West
        /\ origin = West => p = South
        /\ origin = South => p = East
    /\ (ty = "i8" /\ turns = <<"ccw">>) =>
        /\ origin = East => p = South
        /\ origin = South => p = West
        /\ origin = West => p = North
        /\ origin = North => p = East

C8_Witness ==
    /\ op = "clockwise"
    /\ turns = <<"cw">>
    /\ glyph = GreaterThan
    /\ origin = East
    /\ p = North

\* C9: four successive clockwise quarter-turns return the position they
\* started from, for every element type, also when a coordinate is the
\* minimum of a signed type.
C9_FourClockwise ==
    turns = <<"cw", "cw", "cw", "cw">> => p = origin

C9_Witness ==
    /\ turns = <<"cw", "cw", "cw", "cw">>
    /\ Signed(ty)
    /\ origin = Pos(MIN(ty), Lit(ty, 1))
    /\ p = origin

\* C10: clockwise and counterclockwise undo each other, in either order,
\* for every element type, also when a coordinate is the minimum of a
\* signed type.
C10_MutualInverses ==
    turns \in {<<"cw", "ccw">>, <<"ccw", "cw">>} => p = origin

C10_Witness ==
    /\ turns = <<"cw", "ccw">>
    /\ Signed(ty)
    /\ origin = Pos(Lit(ty, 1), MIN(ty))
    /\ lhs = Pos(MIN(ty), Lit(ty, -1))
    /\ p = origin

====
